---- MODULE Spec2Model ----
(***************************************************************************)
(* Model of src/app/chunksToVideo.py: VideoProcessor.process_chunks and    *)
(* the methods it calls (find_chunk_sequences, concatenate_raw_chunks,     *)
(* run_ffmpeg, mux_video_audio_with_captions).                             *)
(*                                                                         *)
(* The file system, the clock and the external ffmpeg binary are the       *)
(* environment: the chunk directories hold any set of indexed files, every *)
(* external invocation either cannot be launched, exits with 0 or exits    *)
(* with a non-zero code, and every file open may fail.                     *)
(***************************************************************************)
EXTENDS Integers, Sequences, FiniteSets, TLC

\* ---------------------------------------------------------------- bounds
\* chunk files named {kind}_0 .. {kind}_MaxLowIndex may exist, and also the
\* two files around the scan limit
MaxLowIndex == 0
\* the clock readings of a run are 0 .. MaxClock (in clock ticks)
MaxClock == 2

\* ------------------------------------------------------ program constants
\* range(1000) of find_chunk_sequences
ScanLimit == 1000

\* clock ticks per second: strftime("%Y-%m-%d_%H-%M-%S") drops the fraction
TicksPerSecond == 2

\* an absent optional path (Python None)
None == [dir |-> "", stem |-> "None", suffix |-> ""]

\* no exception in flight
NoExc == "none"

\* the indices of S that range(ScanLimit) reaches
IndicesBelow(S) == {i \in S : 0 <= i /\ i < ScanLimit}

\* indices at which a chunk file may exist in a directory
FileIndices == (0 .. MaxLowIndex) \cup {ScanLimit - 1, ScanLimit}

VARIABLES
    videoDir,           \* indices i with video_{i}.webm in video_chunks_dir
    audioDir,           \* indices i with audio_{i}.webm in audio_chunks_dir
    srt_path,           \* argument of process_chunks: None or a path
    pc,                 \* position of the run in the code
    video_chunks,       \* process_chunks locals
    audio_chunks,
    temp_dir,           \* "none" (not created), "exists", "removed"
    files,              \* files on disk other than chunks: path -> content
    audio_concat_path,
    timestamp,
    saved_audio_path,
    cc,                 \* frame of concatenate_raw_chunks
    rf,                 \* frame of run_ffmpeg
    running,            \* an external process is running
    exc,                \* exception in flight (NoExc when there is none)
    result,             \* value returned by process_chunks
    now,                \* last reading of the clock
    steps,              \* pipeline steps entered so far, in order
    cmds,               \* external commands handed to subprocess.run so far
    videoDirExists,     \* video_chunks_dir is on disk
    audioDirExists,     \* audio_chunks_dir is on disk
    outDirs,            \* output directories created so far
    ffmpeg_check,       \* main's "ffmpeg -version": "unknown", "ok", "missing"
    start_time          \* main's reading of the clock (NoTime when not read)

vars == <<videoDir, audioDir, srt_path, pc, video_chunks, audio_chunks,
          temp_dir, files, audio_concat_path, timestamp, saved_audio_path,
          cc, rf, running, exc, result, now, steps, cmds, videoDirExists,
          audioDirExists, outDirs, ffmpeg_check, start_time>>

\* the variables of main and of the constructor
mainVars == <<videoDirExists, audioDirExists, outDirs, ffmpeg_check,
              start_time>>

\* ------------------------------------------------------------------ paths
\* a pathlib.Path: directory, stem and suffix; str() joins them
Path(dir, stem, suffix) == [dir |-> dir, stem |-> stem, suffix |-> suffix]

Str(p) == p.dir \o "/" \o p.stem \o p.suffix

\* Path.with_suffix(suffix)
with_suffix(p, suffix) == [p EXCEPT !.suffix = suffix]

TempDirName == "tmp"

transcript_output_dir == "out/transcripts"

\* start_time before line 234 has run
NoTime == 0 - 1

video_output_dir == "out/video"

audio_output_dir == "out/audio"

\* the subtitle file a caller may pass
SrtFile == Path("transcripts", "captions", ".srt")

video_concat_path == Path(TempDirName, "video_concatenated", ".webm")

AudioConcatPath == Path(TempDirName, "audio_concatenated", ".webm")

\* faulty variant of strftime: the fraction of the second is kept
strftime_fraction(t) == ToString(t)

\* datetime.now().strftime("%Y-%m-%d_%H-%M-%S"): second granularity
strftime(t) == ToString(t \div TicksPerSecond)

final_video_path == Path(video_output_dir, "output_" \o timestamp, ".mp4")

final_audio_path == Path(audio_output_dir, "audio_" \o timestamp, ".wav")

\* Path.exists() for a path that is not None
Exists(p) == p \in DOMAIN files

\* the file system with the file at p (over)written with content c
WriteFile(fs, p, c) ==
    [q \in DOMAIN fs \cup {p} |-> IF q = p THEN c ELSE fs[q]]

\* Path.unlink()
Unlink(fs, p) == [q \in DOMAIN fs \ {p} |-> fs[q]]

\* shutil.rmtree of directory dir
RemoveTree(fs, dir) == [q \in {p \in DOMAIN fs : p.dir # dir} |-> fs[q]]

EmptyFs == [q \in {} |-> <<>>]

\* bytes of the chunk file {kind}_{i}.webm: a header and a payload
ChunkBytes(kind, i) ==
    LET name == kind \o "_" \o ToString(i)
    IN  <<"header:" \o name, "data:" \o name>>

\* --------------------------------------------------- find_chunk_sequences
\* the loop "for i in range(lo, hi): if file.exists(): append((i, file))"
\* (the range is scanned as its lower half followed by its upper half)
RECURSIVE ScanRange(_, _, _)
ScanRange(dir, lo, hi) ==
    IF hi <= lo THEN <<>>
    ELSE IF hi = lo + 1 THEN (IF lo \in dir THEN <<lo>> ELSE <<>>)
    ELSE CHOOSE chunks \in {ScanRange(dir, lo, mid) \o ScanRange(dir, mid, hi) :
                               mid \in {(lo + hi) \div 2}} : TRUE

\* list.sort(key=lambda x: x[0]): insertion of each element in order
RECURSIVE InsertSorted(_, _)
InsertSorted(s, x) ==
    IF s = <<>> THEN <<x>>
    ELSE IF x < Head(s) THEN <<x>> \o s
    ELSE <<Head(s)>> \o InsertSorted(Tail(s), x)

RECURSIVE SortByIndex(_)
SortByIndex(s) ==
    IF s = <<>> THEN <<>>
    ELSE InsertSorted(SortByIndex(SubSeq(s, 1, Len(s) - 1)), s[Len(s)])

\* faulty variant of find_chunk_sequences: the scan includes the limit itself
find_chunk_sequences_inclusive(dir) ==
    LET scanned == {ScanRange(dir, 0, ScanLimit + 1)}
    IN  CHOOSE chunks \in {SortByIndex(s) : s \in scanned} : TRUE

\* lines 47-58: the list the loop builds, then sorted
find_chunk_sequences(dir) ==
    LET scanned == {ScanRange(dir, 0, ScanLimit)}
    IN  CHOOSE chunks \in {SortByIndex(s) : s \in scanned} : TRUE

\* ----------------------------------------------------------------- frames
NoCc == [chunks |-> <<>>, output_path |-> None, chunk_type |-> "",
         k |-> 0, ret |-> FALSE]

NoRf == [site |-> "", argv |-> <<>>, inputs |-> <<>>, output_path |-> None,
         success |-> FALSE]

NoResult == <<>>

Init ==
    /\ videoDir \in SUBSET FileIndices
    /\ audioDir \in SUBSET FileIndices
    /\ srt_path \in {None, SrtFile}
    /\ files \in {EmptyFs, WriteFile(EmptyFs, SrtFile, <<"srt">>)}
    /\ srt_path = None => files = EmptyFs
    /\ videoDirExists \in BOOLEAN
    /\ audioDirExists \in BOOLEAN
    /\ ~videoDirExists => videoDir = {}
    /\ ~audioDirExists => audioDir = {}
    /\ pc \in {"main", "construct"}
    /\ pc = "main" => srt_path = None
    /\ outDirs = {}
    /\ ffmpeg_check = "unknown"
    /\ start_time = NoTime
    /\ video_chunks = <<>>
    /\ audio_chunks = <<>>
    /\ temp_dir = "none"
    /\ audio_concat_path = None
    /\ timestamp = ""
    /\ saved_audio_path = None
    /\ cc = NoCc
    /\ rf = NoRf
    /\ running = FALSE
    /\ exc = NoExc
    /\ result = NoResult
    /\ now = 0
    /\ steps = <<>>
    /\ cmds = <<>>

\* ------------------------------------------------------------------- main
\* lines 234-241: main reads the clock; its first reading is the origin of
\* the model's clock
MainStart ==
    /\ pc = "main"
    /\ start_time' = now
    /\ pc' = "main_check_ffmpeg"
    /\ UNCHANGED <<videoDir, audioDir, srt_path, video_chunks, audio_chunks,
                   temp_dir, files, audio_concat_path, timestamp,
                   saved_audio_path, cc, rf, running, exc, result, now, steps,
                   cmds, videoDirExists, audioDirExists, outDirs,
                   ffmpeg_check>>

\* lines 243-249: "ffmpeg -version" exits 0, or it fails or cannot be
\* launched and main returns
MainCheckFfmpeg ==
    /\ pc = "main_check_ffmpeg"
    /\ \E found \in BOOLEAN :
          /\ ffmpeg_check' = IF found THEN "ok" ELSE "missing"
          /\ pc' = IF found THEN "main_check_dirs" ELSE "main_aborted"
    /\ UNCHANGED <<videoDir, audioDir, srt_path, video_chunks, audio_chunks,
                   temp_dir, files, audio_concat_path, timestamp,
                   saved_audio_path, cc, rf, running, exc, result, now, steps,
                   cmds, videoDirExists, audioDirExists, outDirs, start_time>>

\* faulty variant of VideoDirMissing: the directory is not tested
VideoDirNotTested(exists) == FALSE

\* line 252: "if not os.path.exists(video_chunks_dir)"
VideoDirMissing(exists) == ~exists

\* lines 251-267: a missing video directory ends main, a missing audio
\* directory is only reported; srt_path is None
MainCheckDirs ==
    /\ pc = "main_check_dirs"
    /\ pc' = IF VideoDirMissing(videoDirExists)
             THEN "main_aborted" ELSE "construct"
    /\ srt_path' = None
    /\ UNCHANGED <<videoDir, audioDir, video_chunks, audio_chunks,
                   temp_dir, files, audio_concat_path, timestamp,
                   saved_audio_path, cc, rf, running, exc, result, now, steps,
                   cmds, videoDirExists, audioDirExists, outDirs,
                   ffmpeg_check, start_time>>

\* lines 10-21 (called at lines 270-276 by main, or by another caller that
\* passes no transcript directory): the output directories are created,
\* then process_chunks is called (line 277)
Construct ==
    /\ pc = "construct"
    /\ outDirs' = {video_output_dir, audio_output_dir}
                  \cup (IF start_time # NoTime
                        THEN {transcript_output_dir} ELSE {})
    /\ pc' = "process_chunks"
    /\ UNCHANGED <<videoDir, audioDir, srt_path, video_chunks, audio_chunks,
                   temp_dir, files, audio_concat_path, timestamp,
                   saved_audio_path, cc, rf, running, exc, result, now, steps,
                   cmds, videoDirExists, audioDirExists, ffmpeg_check,
                   start_time>>

\* ------------------------------------------------------------- run_ffmpeg
\* faulty variant of run_ffmpeg_result: the CalledProcessError of a non-zero exit is
\* not caught
run_ffmpeg_raises(code) ==
    IF code = 0
    THEN [raised |-> NoExc, success |-> TRUE]
    ELSE [raised |-> "CalledProcessError", success |-> FALSE]

\* lines 28-40: what run_ffmpeg does with the exit code of a process that
\* was launched: with check=True a non-zero exit raises CalledProcessError,
\* which the except clause turns into (False, stderr)
run_ffmpeg_result(code) ==
    IF code = 0
    THEN [raised |-> NoExc, success |-> TRUE]
    ELSE [raised |-> NoExc, success |-> FALSE]

\* faulty variant of AfterRunFfmpeg: a transcode that could not be launched is
\* tried again
AfterRunFfmpegRetry(site, raised) ==
    CASE site = "repair" -> IF raised = NoExc THEN "cc_cleanup" ELSE "cc_except"
      [] site = "transcode" ->
            IF raised = NoExc THEN "after_transcode" ELSE "transcode"
      [] site = "mux" -> "after_mux"

\* where control goes when run_ffmpeg returns to, or raises into, its caller
AfterRunFfmpeg(site, raised) ==
    CASE site = "repair" -> IF raised = NoExc THEN "cc_cleanup" ELSE "cc_except"
      [] site = "transcode" -> "after_transcode"
      [] site = "mux" -> "after_mux"

\* what the external command writes to its output path when it exits 0
FfmpegOutput(site, inputs) ==
    LET content(p) == IF p \in DOMAIN files THEN files[p] ELSE <<>>
    IN  <<site>> \o content(inputs[1])

\* the record kept of one call of subprocess.run: the command, the files it
\* names, and what became of it ("notfound", "running", "exit0", "exit1")
Invocation(frame, outcome) ==
    [site |-> frame.site, argv |-> frame.argv, inputs |-> frame.inputs,
     output_path |-> frame.output_path, outcome |-> outcome]

\* line 29: subprocess.run(command, ...): the binary cannot be launched
\* (FileNotFoundError, which run_ffmpeg does not catch), or the process starts
RunFfmpeg ==
    /\ pc = "run_ffmpeg"
    /\ \/ /\ cmds' = Append(cmds, Invocation(rf, "notfound"))
          /\ exc' = "FileNotFoundError"
          /\ pc' = AfterRunFfmpeg(rf.site, "FileNotFoundError")
          /\ UNCHANGED running
       \/ /\ cmds' = Append(cmds, Invocation(rf, "running"))
          /\ running' = TRUE
          /\ pc' = "ffmpeg_running"
          /\ UNCHANGED exc
    /\ UNCHANGED <<videoDir, audioDir, srt_path, video_chunks, audio_chunks,
                   temp_dir, files, audio_concat_path, timestamp,
                   saved_audio_path, cc, rf, result, now, steps>>
    /\ UNCHANGED mainVars

\* lines 29-40: the external process exits; with exit code 0 it has written
\* its output file, with another code it may have left a partial one
FfmpegExit ==
    /\ pc = "ffmpeg_running"
    /\ \E code \in {0, 1}, wrote \in BOOLEAN :
          /\ code = 0 => wrote
          /\ files' = IF wrote
                      THEN WriteFile(files, rf.output_path,
                                     IF code = 0
                                     THEN FfmpegOutput(rf.site, rf.inputs)
                                     ELSE <<"partial">>)
                      ELSE files
          /\ LET r == run_ffmpeg_result(code)
             IN  /\ rf' = [rf EXCEPT !.success = r.success]
                 /\ exc' = r.raised
                 /\ pc' = AfterRunFfmpeg(rf.site, r.raised)
          /\ cmds' = [cmds EXCEPT ![Len(cmds)].outcome =
                         IF code = 0 THEN "exit0" ELSE "exit1"]
    /\ running' = FALSE
    /\ UNCHANGED <<videoDir, audioDir, srt_path, video_chunks, audio_chunks,
                   temp_dir, audio_concat_path, timestamp, saved_audio_path,
                   cc, result, now, steps>>
    /\ UNCHANGED mainVars


\* ------------------------------------------------- concatenate_raw_chunks
\* line 75
temp_concat_path == with_suffix(cc.output_path, ".temp.webm")

\* lines 87-95: the repair command
RepairCommand(input, output) ==
    <<"ffmpeg", "-y", "-fflags", "+genpts", "-i", Str(input), "-c", "copy",
      "-avoid_negative_ts", "make_zero", Str(output)>>

\* lines 69-78: an empty sequence fails at once; otherwise the raw file is
\* opened for writing, which may fail
CcEntry ==
    /\ pc = "cc_entry"
    /\ IF cc.chunks = <<>>
       THEN /\ cc' = [cc EXCEPT !.ret = FALSE]
            /\ pc' = "cc_return"
            /\ UNCHANGED <<files, exc>>
       ELSE \/ /\ files' = WriteFile(files, temp_concat_path, <<>>)
               /\ pc' = "cc_loop"
               /\ UNCHANGED <<cc, exc>>
            \/ /\ exc' = "OSError"
               /\ pc' = "cc_except"
               /\ UNCHANGED <<cc, files>>
    /\ UNCHANGED <<videoDir, audioDir, srt_path, video_chunks, audio_chunks,
                   temp_dir, audio_concat_path, timestamp, saved_audio_path,
                   rf, running, result, now, steps, cmds>>
    /\ UNCHANGED mainVars

\* faulty variant of AppendedBytes: the raw file is written from its start
\* for every chunk
AppendedBytesRewound(content, kind, index) == ChunkBytes(kind, index)

\* lines 81-82: "outfile.write(infile.read())": the raw file after the chunk
\* with this index has been appended to it
AppendedBytes(content, kind, index) == content \o ChunkBytes(kind, index)

\* lines 79-82: one iteration of the loop: the chunk is read and appended,
\* or reading it fails
CcAppend ==
    /\ pc = "cc_loop"
    /\ cc.k <= Len(cc.chunks)
    /\ \/ /\ files' = [files EXCEPT ![temp_concat_path] =
                         AppendedBytes(@, cc.chunk_type, cc.chunks[cc.k])]
          /\ cc' = [cc EXCEPT !.k = @ + 1]
          /\ UNCHANGED <<pc, exc>>
       \/ /\ exc' = "OSError"
          /\ pc' = "cc_except"
          /\ UNCHANGED <<cc, files>>
    /\ UNCHANGED <<videoDir, audioDir, srt_path, video_chunks, audio_chunks,
                   temp_dir, audio_concat_path, timestamp, saved_audio_path,
                   rf, running, result, now, steps, cmds>>
    /\ UNCHANGED mainVars

\* lines 84-100: the loop is over and the raw file closed: run the repair
CcRepair ==
    /\ pc = "cc_loop"
    /\ cc.k > Len(cc.chunks)
    /\ rf' = [site |-> "repair",
              argv |-> RepairCommand(temp_concat_path, cc.output_path),
              inputs |-> <<temp_concat_path>>,
              output_path |-> cc.output_path,
              success |-> FALSE]
    /\ pc' = "run_ffmpeg"
    /\ UNCHANGED <<videoDir, audioDir, srt_path, video_chunks, audio_chunks,
                   temp_dir, files, audio_concat_path, timestamp,
                   saved_audio_path, cc, running, exc, result, now, steps,
                   cmds>>
    /\ UNCHANGED mainVars

\* lines 102-106: run_ffmpeg returned: remove the raw file, return success
CcCleanup ==
    /\ pc = "cc_cleanup"
    /\ files' = IF Exists(temp_concat_path)
                THEN Unlink(files, temp_concat_path) ELSE files
    /\ cc' = [cc EXCEPT !.ret = rf.success]
    /\ pc' = "cc_return"
    /\ UNCHANGED <<videoDir, audioDir, srt_path, video_chunks, audio_chunks,
                   temp_dir, audio_concat_path, timestamp, saved_audio_path,
                   rf, running, exc, result, now, steps, cmds>>
    /\ UNCHANGED mainVars

\* faulty variant of CcExcept: the handler returns without removing the raw
\* file
CcExceptNoUnlink ==
    /\ pc = "cc_except"
    /\ exc' = NoExc
    /\ cc' = [cc EXCEPT !.ret = FALSE]
    /\ pc' = "cc_return"
    /\ UNCHANGED <<videoDir, audioDir, srt_path, video_chunks, audio_chunks,
                   temp_dir, files, audio_concat_path, timestamp,
                   saved_audio_path, rf, running, result, now, steps, cmds>>
    /\ UNCHANGED mainVars

\* lines 108-112: any exception raised in the try block is caught here
CcExcept ==
    /\ pc = "cc_except"
    /\ exc' = NoExc
    /\ files' = IF Exists(temp_concat_path)
                THEN Unlink(files, temp_concat_path) ELSE files
    /\ cc' = [cc EXCEPT !.ret = FALSE]
    /\ pc' = "cc_return"
    /\ UNCHANGED <<videoDir, audioDir, srt_path, video_chunks, audio_chunks,
                   temp_dir, audio_concat_path, timestamp, saved_audio_path,
                   rf, running, result, now, steps, cmds>>
    /\ UNCHANGED mainVars

\* ---------------------------------------------------------- process_chunks
\* faulty variant of ExitTempDir: the directory is removed by a call at the end of
\* the block, which an exception skips
ExitTempDirNoFinally(fs, raised) ==
    IF raised
    THEN [temp_dir |-> "exists", files |-> fs]
    ELSE [temp_dir |-> "removed", files |-> RemoveTree(fs, TempDirName)]

\* faulty variant of ExitTempDir: when the run does not end in an exception,
\* the output directories are cleaned together with the temporary one
ExitTempDirPurge(fs, raised) ==
    [temp_dir |-> "removed",
     files |-> IF raised
               THEN RemoveTree(fs, TempDirName)
               ELSE RemoveTree(RemoveTree(RemoveTree(fs, TempDirName),
                                          video_output_dir),
                               audio_output_dir)]

\* leaving the "with tempfile.TemporaryDirectory()" block of line 165, by a
\* return or by an exception: the directory and all it holds are removed
ExitTempDir(fs, raised) ==
    [temp_dir |-> "removed", files |-> RemoveTree(fs, TempDirName)]

\* lines 152-155: scan both directories
Scan ==
    /\ pc = "process_chunks"
    /\ video_chunks' = find_chunk_sequences(videoDir)
    /\ audio_chunks' = find_chunk_sequences(audioDir)
    /\ steps' = Append(steps, "Scanning")
    /\ pc' = "check_chunks"
    /\ UNCHANGED <<videoDir, audioDir, srt_path, temp_dir, files,
                   audio_concat_path, timestamp, saved_audio_path, cc, rf,
                   running, exc, result, now, cmds>>
    /\ UNCHANGED mainVars

\* faulty variant of NoVideo: the run is given up only when both sequences are empty
NoVideoNorAudio(chunks) == chunks = <<>> /\ audio_chunks = <<>>

\* line 157: "if not video_chunks"
NoVideo(chunks) == chunks = <<>>

\* lines 157-167: no video chunks is the end of the run; otherwise the
\* temporary directory is created
CheckChunks ==
    /\ pc = "check_chunks"
    /\ IF NoVideo(video_chunks)
       THEN /\ result' = <<None, None>>
            /\ pc' = "returned"
            /\ UNCHANGED temp_dir
       ELSE /\ temp_dir' = "exists"
            /\ pc' = "concat_video"
            /\ UNCHANGED result
    /\ UNCHANGED <<videoDir, audioDir, srt_path, video_chunks, audio_chunks,
                   files, audio_concat_path, timestamp, saved_audio_path,
                   cc, rf, running, exc, now, steps, cmds>>
    /\ UNCHANGED mainVars

\* lines 169-173: step 1, the call of concatenate_raw_chunks for the video
ConcatVideo ==
    /\ pc = "concat_video"
    /\ steps' = Append(steps, "ConcatenatingVideo")
    /\ cc' = [chunks |-> video_chunks, output_path |-> video_concat_path,
              chunk_type |-> "video", k |-> 1, ret |-> FALSE]
    /\ pc' = "cc_entry"
    /\ UNCHANGED <<videoDir, audioDir, srt_path, video_chunks, audio_chunks,
                   temp_dir, files, audio_concat_path, timestamp,
                   saved_audio_path, rf, running, exc, result, now, cmds>>
    /\ UNCHANGED mainVars

\* faulty variant of VideoConcatFailed: the return value is not looked at
VideoConcatIgnored(ret) == FALSE

\* line 173: "if not self.concatenate_raw_chunks(video_chunks, ...)"
VideoConcatFailed(ret) == ~ret

\* lines 173-175: a failed video concatenation ends the run
AfterConcatVideo ==
    /\ pc = "cc_return"
    /\ cc.chunk_type = "video"
    /\ IF VideoConcatFailed(cc.ret)
       THEN /\ result' = <<None, None>>
            /\ temp_dir' = ExitTempDir(files, FALSE).temp_dir
            /\ files' = ExitTempDir(files, FALSE).files
            /\ pc' = "returned"
       ELSE /\ pc' = "concat_audio"
            /\ UNCHANGED <<result, temp_dir, files>>
    /\ UNCHANGED <<videoDir, audioDir, srt_path, video_chunks, audio_chunks,
                   audio_concat_path, timestamp, saved_audio_path, cc, rf,
                   running, exc, now, steps, cmds>>
    /\ UNCHANGED mainVars

\* lines 177-183: step 2, the audio chunks are concatenated if there are any
ConcatAudio ==
    /\ pc = "concat_audio"
    /\ IF audio_chunks # <<>>
       THEN /\ audio_concat_path' = AudioConcatPath
            /\ steps' = Append(steps, "ConcatenatingAudio")
            /\ cc' = [chunks |-> audio_chunks,
                      output_path |-> AudioConcatPath,
                      chunk_type |-> "audio", k |-> 1, ret |-> FALSE]
            /\ pc' = "cc_entry"
       ELSE /\ audio_concat_path' = None
            /\ pc' = "timestamp"
            /\ UNCHANGED <<steps, cc>>
    /\ UNCHANGED <<videoDir, audioDir, srt_path, video_chunks, audio_chunks,
                   temp_dir, files, timestamp, saved_audio_path, rf, running,
                   exc, result, now, cmds>>
    /\ UNCHANGED mainVars

\* faulty variant of AudioPathAfterConcat: the path is not reset after a failure
AudioPathKept(ret, path) == path

\* lines 183-185: audio_concat_path after concatenate_raw_chunks returned ret
AudioPathAfterConcat(ret, path) == IF ~ret THEN None ELSE path

\* lines 183-185: a failed audio concatenation leaves the run without audio
AfterConcatAudio ==
    /\ pc = "cc_return"
    /\ cc.chunk_type = "audio"
    /\ audio_concat_path' = AudioPathAfterConcat(cc.ret, audio_concat_path)
    /\ pc' = "timestamp"
    /\ UNCHANGED <<videoDir, audioDir, srt_path, video_chunks, audio_chunks,
                   temp_dir, files, timestamp, saved_audio_path, cc, rf,
                   running, exc, result, now, steps, cmds>>
    /\ UNCHANGED mainVars

\* lines 187-193: step 3, the output names carry the clock's reading now
Timestamp ==
    /\ pc = "timestamp"
    /\ \E t \in now .. MaxClock :
          /\ now' = t
          /\ timestamp' = strftime(t)
    /\ saved_audio_path' = None
    /\ pc' = "transcode"
    /\ UNCHANGED <<videoDir, audioDir, srt_path, video_chunks, audio_chunks,
                   temp_dir, files, audio_concat_path, cc, rf, running, exc,
                   result, steps, cmds>>
    /\ UNCHANGED mainVars

\* lines 198-205: the transcode command
TranscodeCommand(input, output) ==
    <<"ffmpeg", "-y", "-i", Str(input), "-acodec", "pcm_s16le",
      "-ar", "44100", Str(output)>>

\* faulty variant of NeedsTranscode: only the file is tested, not the variable
NeedsTranscodeFileOnly(path) == Exists(AudioConcatPath)

\* line 194: "if audio_concat_path and audio_concat_path.exists()"
NeedsTranscode(path) == path # None /\ Exists(path)

\* lines 192-210: step 4, the repaired audio is converted to WAV if it exists
Transcode ==
    /\ pc = "transcode"
    /\ IF NeedsTranscode(audio_concat_path)
       THEN /\ steps' = Append(steps, "TranscodingAudio")
            /\ rf' = [site |-> "transcode",
                      argv |-> TranscodeCommand(audio_concat_path,
                                                final_audio_path),
                      inputs |-> <<audio_concat_path>>,
                      output_path |-> final_audio_path,
                      success |-> FALSE]
            /\ pc' = "run_ffmpeg"
       ELSE /\ pc' = "mux"
            /\ UNCHANGED <<steps, rf>>
    /\ UNCHANGED <<videoDir, audioDir, srt_path, video_chunks, audio_chunks,
                   temp_dir, files, audio_concat_path, timestamp,
                   saved_audio_path, cc, running, exc, result, now, cmds>>
    /\ UNCHANGED mainVars

\* lines 212-218: the WAV path is kept only if the command succeeded; any
\* exception of the try block is caught and the run goes on
AfterTranscode ==
    /\ pc = "after_transcode"
    /\ exc' = NoExc
    /\ saved_audio_path' = IF exc = NoExc /\ rf.success
                           THEN final_audio_path ELSE saved_audio_path
    /\ pc' = "mux"
    /\ UNCHANGED <<videoDir, audioDir, srt_path, video_chunks, audio_chunks,
                   temp_dir, files, audio_concat_path, timestamp, cc, rf,
                   running, result, now, steps, cmds>>
    /\ UNCHANGED mainVars

\* ------------------------------------------ mux_video_audio_with_captions
\* faulty variant of MuxCommand: the audio is muxed only when the WAV was saved
MuxCommandSavedAudio(video_path, audio_path, srt, output_path) ==
    LET audio == audio_path # None /\ saved_audio_path # None
    IN  <<"ffmpeg", "-y">>
        \o <<"-i", Str(video_path)>>
        \o (IF audio THEN <<"-i", Str(audio_path)>> ELSE <<>>)
        \o <<"-c:v", "libx264", "-preset", "medium", "-crf", "23">>
        \o (IF audio THEN <<"-c:a", "aac", "-b:a", "128k">> ELSE <<>>)
        \o (IF srt # None /\ Exists(srt)
            THEN <<"-i", Str(srt), "-c:s", "mov_text", "-metadata:s:s:0",
                   "language=eng">>
            ELSE <<>>)
        \o <<"-shortest", "-avoid_negative_ts", "make_zero">>
        \o <<Str(output_path)>>

\* faulty variant of MuxCommand: the subtitle file is not tested for existence
MuxCommandSrtUnchecked(video_path, audio_path, srt, output_path) ==
    <<"ffmpeg", "-y">>
    \o <<"-i", Str(video_path)>>
    \o (IF audio_path # None THEN <<"-i", Str(audio_path)>> ELSE <<>>)
    \o <<"-c:v", "libx264", "-preset", "medium", "-crf", "23">>
    \o (IF audio_path # None THEN <<"-c:a", "aac", "-b:a", "128k">> ELSE <<>>)
    \o (IF srt # None
        THEN <<"-i", Str(srt), "-c:s", "mov_text", "-metadata:s:s:0",
               "language=eng">>
        ELSE <<>>)
    \o <<"-shortest", "-avoid_negative_ts", "make_zero">>
    \o <<Str(output_path)>>

\* faulty variant of MuxCommand: the audio input is added without the test of line 123
MuxCommandAlwaysAudio(video_path, audio_path, srt, output_path) ==
    <<"ffmpeg", "-y">>
    \o <<"-i", Str(video_path)>>
    \o <<"-i", Str(audio_path)>>
    \o <<"-c:v", "libx264", "-preset", "medium", "-crf", "23">>
    \o (IF audio_path # None THEN <<"-c:a", "aac", "-b:a", "128k">> ELSE <<>>)
    \o (IF srt # None /\ Exists(srt)
        THEN <<"-i", Str(srt), "-c:s", "mov_text", "-metadata:s:s:0",
               "language=eng">>
        ELSE <<>>)
    \o <<"-shortest", "-avoid_negative_ts", "make_zero">>
    \o <<Str(output_path)>>

\* faulty variant of MuxCommand: the output is not trimmed to the shortest
\* stream
MuxCommandNoShortest(video_path, audio_path, srt, output_path) ==
    <<"ffmpeg", "-y">>
    \o <<"-i", Str(video_path)>>
    \o (IF audio_path # None THEN <<"-i", Str(audio_path)>> ELSE <<>>)
    \o <<"-c:v", "libx264", "-preset", "medium", "-crf", "23">>
    \o (IF audio_path # None THEN <<"-c:a", "aac", "-b:a", "128k">> ELSE <<>>)
    \o (IF srt # None /\ Exists(srt)
        THEN <<"-i", Str(srt), "-c:s", "mov_text", "-metadata:s:s:0",
               "language=eng">>
        ELSE <<>>)
    \o <<"-avoid_negative_ts", "make_zero">>
    \o <<Str(output_path)>>

\* lines 117-141: the mux command
MuxCommand(video_path, audio_path, srt, output_path) ==
    <<"ffmpeg", "-y">>
    \o <<"-i", Str(video_path)>>
    \o (IF audio_path # None THEN <<"-i", Str(audio_path)>> ELSE <<>>)
    \o <<"-c:v", "libx264", "-preset", "medium", "-crf", "23">>
    \o (IF audio_path # None THEN <<"-c:a", "aac", "-b:a", "128k">> ELSE <<>>)
    \o (IF srt # None /\ Exists(srt)
        THEN <<"-i", Str(srt), "-c:s", "mov_text", "-metadata:s:s:0",
               "language=eng">>
        ELSE <<>>)
    \o <<"-shortest", "-avoid_negative_ts", "make_zero">>
    \o <<Str(output_path)>>

\* lines 220-223 and 117-146: step 5, the final MP4 is muxed
Mux ==
    /\ pc = "mux"
    /\ steps' = Append(steps, "Muxing")
    /\ rf' = [site |-> "mux",
              argv |-> MuxCommand(video_concat_path, audio_concat_path,
                                  srt_path, final_video_path),
              inputs |-> <<video_concat_path>>,
              output_path |-> final_video_path,
              success |-> FALSE]
    /\ pc' = "run_ffmpeg"
    /\ UNCHANGED <<videoDir, audioDir, srt_path, video_chunks, audio_chunks,
                   temp_dir, files, audio_concat_path, timestamp,
                   saved_audio_path, cc, running, exc, result, now, cmds>>
    /\ UNCHANGED mainVars

\* faulty variant of ProcessResult: the MP4 path is returned whatever the mux did
ProcessResultVideoAlways(success, video, audio) ==
    <<video, audio>>

\* faulty variant of ProcessResult: a failed mux returns nothing at all
ProcessResultAllOrNothing(success, video, audio) ==
    IF success THEN <<video, audio>> ELSE <<None, None>>

\* lines 223-231: the tuple process_chunks returns after the mux
ProcessResult(success, video, audio) ==
    IF success THEN <<video, audio>> ELSE <<None, audio>>

\* lines 148 and 223-231: the result of the run; an exception raised by
\* run_ffmpeg is caught nowhere and leaves process_chunks
AfterMux ==
    /\ pc = "after_mux"
    /\ IF exc # NoExc
       THEN /\ pc' = "raised"
            /\ temp_dir' = ExitTempDir(files, TRUE).temp_dir
            /\ files' = ExitTempDir(files, TRUE).files
            /\ UNCHANGED result
       ELSE /\ pc' = "returned"
            /\ temp_dir' = ExitTempDir(files, FALSE).temp_dir
            /\ files' = ExitTempDir(files, FALSE).files
            /\ result' = ProcessResult(rf.success, final_video_path,
                                       saved_audio_path)
    /\ UNCHANGED <<videoDir, audioDir, srt_path, video_chunks, audio_chunks,
                   audio_concat_path, timestamp, saved_audio_path, cc, rf,
                   running, exc, now, steps, cmds>>
    /\ UNCHANGED mainVars

Next ==
    \/ MainStart
    \/ MainCheckFfmpeg
    \/ MainCheckDirs
    \/ Construct
    \/ Scan
    \/ CheckChunks
    \/ ConcatVideo
    \/ CcEntry
    \/ CcAppend
    \/ CcRepair
    \/ RunFfmpeg
    \/ FfmpegExit
    \/ CcCleanup
    \/ CcExcept
    \/ AfterConcatVideo
    \/ ConcatAudio
    \/ AfterConcatAudio
    \/ Timestamp
    \/ Transcode
    \/ AfterTranscode
    \/ Mux
    \/ AfterMux

Spec == Init /\ [][Next]_vars

\* the steps the interpreter takes by itself: every step but the exit of an
\* external process, for which subprocess.run (line 29) waits without timeout
ProgramStep == Next /\ ~running

\* the program is sequential: its next statement is always executed.  Nothing
\* is assumed of the external processes.
FairSpec == Spec /\ WF_vars(ProgramStep)

\* ------------------------------------ concatenate_raw_chunks called alone
\* the sequences a caller may pass: no chunk, one chunk, or two chunks in
\* either order
ChunkLists ==
    LET I == IndicesBelow(FileIndices)
    IN  {<<>>} \cup {<<i>> : i \in I}
        \cup {<<i, j>> : <<i, j>> \in {q \in I \X I : q[1] # q[2]}}

\* line 67: a call of concatenate_raw_chunks(chunks, output_path, chunk_type)
\* in an existing directory, where a raw file of an earlier call may be left
InitConcat ==
    /\ \E chunks \in ChunkLists, kind \in {"video", "audio"} :
          LET output == IF kind = "video"
                        THEN video_concat_path ELSE AudioConcatPath
          IN  /\ cc = [chunks |-> chunks, output_path |-> output,
                       chunk_type |-> kind, k |-> 1, ret |-> FALSE]
              /\ files \in {EmptyFs,
                             WriteFile(EmptyFs,
                                       with_suffix(output, ".temp.webm"),
                                       <<"stale">>)}
              /\ chunks = <<>> => files = EmptyFs
    /\ pc = "cc_entry"
    /\ temp_dir = "exists"
    /\ videoDir = {}
    /\ audioDir = {}
    /\ videoDirExists = TRUE
    /\ audioDirExists = TRUE
    /\ srt_path = None
    /\ outDirs = {video_output_dir, audio_output_dir}
    /\ ffmpeg_check = "unknown"
    /\ start_time = NoTime
    /\ video_chunks = <<>>
    /\ audio_chunks = <<>>
    /\ audio_concat_path = None
    /\ timestamp = ""
    /\ saved_audio_path = None
    /\ rf = NoRf
    /\ running = FALSE
    /\ exc = NoExc
    /\ result = NoResult
    /\ now = 0
    /\ steps = <<>>
    /\ cmds = <<>>

\* the steps of concatenate_raw_chunks and of the run_ffmpeg it calls
NextConcat ==
    \/ CcEntry
    \/ CcAppend
    \/ CcRepair
    \/ RunFfmpeg
    \/ FfmpegExit
    \/ CcCleanup
    \/ CcExcept

SpecConcat == InitConcat /\ [][NextConcat]_vars

\* ------------------------------------------------------------- properties
Range(s) == {s[i] : i \in 1 .. Len(s)}

Count(s, x) == Cardinality({i \in 1 .. Len(s) : s[i] = x})

\* find_chunk_sequences has returned
Scanned ==
    pc \notin {"main", "main_check_ffmpeg", "main_check_dirs", "main_aborted",
               "construct", "process_chunks"}

\* process_chunks has returned a tuple
Returned == pc = "returned"

\* process_chunks is over, by a return or by an exception
Terminal == pc \in {"returned", "raised"}

\* control is inside concatenate_raw_chunks
InConcat ==
    \/ pc \in {"cc_entry", "cc_loop", "cc_cleanup", "cc_except"}
    \/ pc \in {"run_ffmpeg", "ffmpeg_running"} /\ rf.site = "repair"

\* concatenate_raw_chunks has returned False for the video, for the audio
VideoConcatReturnedFalse == cc.chunk_type = "video" /\ ~InConcat /\ ~cc.ret

AudioConcatReturnedFalse == cc.chunk_type = "audio" /\ ~InConcat /\ ~cc.ret

\* the external command of a step that wrote to output exited with code 0
Exit0(site, output) ==
    \E i \in 1 .. Len(cmds) :
        /\ cmds[i].site = site
        /\ cmds[i].output_path = output
        /\ cmds[i].outcome = "exit0"

\* the indices of the commands of a step
CmdsOf(site) == {i \in 1 .. Len(cmds) : cmds[i].site = site}

\* a mux command with the video as its only media input
NoAudioInput(argv) ==
    /\ Count(argv, "-i") = 1 + (IF srt_path # None /\ Exists(srt_path)
                                THEN 1 ELSE 0)
    /\ "-c:a" \notin Range(argv)
    /\ Str(AudioConcatPath) \notin Range(argv)

\* C1: when the scan finds no video chunk, the run returns (None, None)
\* right after the scan: no later step is entered and no external command
\* is invoked, whatever the audio sequence holds.
C1_NoVideoNoMuxing ==
    (Scanned /\ video_chunks = <<>>) =>
        /\ cmds = <<>>
        /\ steps = <<"Scanning">>
        /\ pc \in {"check_chunks", "returned"}
        /\ Returned => result = <<None, None>>

C1_Witness ==
    /\ Returned
    /\ video_chunks = <<>>
    /\ audio_chunks # <<>>
    /\ result = <<None, None>>

\* C2 as stated: with no audio chunk but some video chunk, every run that
\* returns has a video path and no audio path.
C2_Original ==
    (Returned /\ video_chunks # <<>> /\ audio_chunks = <<>>) =>
        /\ result[1] # None
        /\ result[2] = None

\* C2 amended: with no audio chunk but some video chunk, no audio
\* concatenation and no transcode is attempted, every mux command is built
\* without an audio input, and a run that returns has no audio path and has
\* a video path exactly when the video repair and the mux both exited 0.
C2_Amended ==
    (Scanned /\ video_chunks # <<>> /\ audio_chunks = <<>>) =>
        /\ "ConcatenatingAudio" \notin Range(steps)
        /\ "TranscodingAudio" \notin Range(steps)
        /\ \A i \in 1 .. Len(cmds) :
              /\ cmds[i].site # "transcode"
              /\ cmds[i].output_path # AudioConcatPath
              /\ cmds[i].site = "mux" => NoAudioInput(cmds[i].argv)
        /\ Returned =>
              /\ result[2] = None
              /\ result[1] # None <=>
                    /\ Exit0("repair", video_concat_path)
                    /\ Exit0("mux", final_video_path)
              /\ result[1] # None => result[1] = final_video_path

C2_Witness ==
    /\ Returned
    /\ video_chunks # <<>>
    /\ audio_chunks = <<>>
    /\ result[1] # None
    /\ CmdsOf("mux") # {}

\* C3: once the audio concatenation has failed after a successful video
\* concatenation, the run goes on without audio: no transcode is attempted,
\* the mux is invoked with the video as its only media input, the returned
\* audio path is None, and the video path is returned when the mux exits 0.
C3_AudioConcatFailureDegrades ==
    AudioConcatReturnedFalse =>
        /\ "TranscodingAudio" \notin Range(steps)
        /\ CmdsOf("transcode") = {}
        /\ \A i \in CmdsOf("mux") : NoAudioInput(cmds[i].argv)
        /\ Terminal => "Muxing" \in Range(steps) /\ CmdsOf("mux") # {}
        /\ Returned =>
              /\ result[2] = None
              /\ Exit0("mux", final_video_path) =>
                    result[1] = final_video_path

C3_Witness ==
    /\ AudioConcatReturnedFalse
    /\ Returned
    /\ result[1] # None
    /\ result[2] = None

\* C4: when process_chunks is over, by a return or by an exception, the
\* temporary directory is not on disk and no file of it is left; the raw and
\* the repaired file of both stream kinds are only ever inside it.
C4_WorkspaceRemoved ==
    /\ Terminal =>
          /\ temp_dir # "exists"
          /\ \A p \in DOMAIN files : p.dir # TempDirName
    /\ \A i \in CmdsOf("repair") :
          /\ cmds[i].output_path.dir = TempDirName
          /\ \A j \in 1 .. Len(cmds[i].inputs) :
                cmds[i].inputs[j].dir = TempDirName
    /\ \A p \in DOMAIN files :
          p.stem \in {"video_concatenated", "audio_concatenated"} =>
              p.dir = TempDirName /\ temp_dir = "exists"

C4_Witness ==
    /\ pc = "raised"
    /\ temp_dir = "removed"
    /\ CmdsOf("repair") # {}
    /\ CmdsOf("transcode") # {}

\* the mux command exited with a non-zero code
MuxExitedNonZero == \E i \in CmdsOf("mux") : cmds[i].outcome = "exit1"

\* C5: when the mux command fails, the run returns no video path and the
\* audio path of the WAV file exactly when the transcode command of this run
\* exited 0; that file is then still on disk.
C5_MuxFailureKeepsAudio ==
    (Returned /\ MuxExitedNonZero) =>
        /\ result[1] = None
        /\ result[2] # None <=> Exit0("transcode", final_audio_path)
        /\ result[2] # None =>
              result[2] = final_audio_path /\ Exists(final_audio_path)

C5_Witness ==
    /\ Returned
    /\ MuxExitedNonZero
    /\ result[1] = None
    /\ result[2] = final_audio_path

\* the transcode command exited with a non-zero code or could not be launched
TranscodeFailed ==
    \E i \in CmdsOf("transcode") : cmds[i].outcome \in {"exit1", "notfound"}

\* a mux command that takes the media file p as its audio input
HasAudioInput(argv, p) ==
    /\ \E j \in 1 .. Len(argv) - 1 : argv[j] = "-i" /\ argv[j + 1] = Str(p)
    /\ "-c:a" \in Range(argv)

\* C6: once the transcode has failed, the run goes on: no audio path is
\* saved or returned, and the mux is still invoked, with the repaired audio
\* file as its audio input.
C6_TranscodeFailureKeepsMux ==
    TranscodeFailed =>
        /\ saved_audio_path = None
        /\ Exit0("repair", AudioConcatPath)
        /\ Terminal => CmdsOf("mux") # {}
        /\ \A i \in CmdsOf("mux") : HasAudioInput(cmds[i].argv, AudioConcatPath)
        /\ Returned => result[2] = None

C6_Witness ==
    /\ TranscodeFailed
    /\ Returned
    /\ result[1] = final_video_path
    /\ result[2] = None

\* C7: once the video concatenation has failed the run returns (None, None)
\* at once: no audio concatenation, transcode or mux is entered, the only
\* commands invoked are video repairs, and no file is in an output directory.
C7_VideoConcatFailureIsFinal ==
    VideoConcatReturnedFalse =>
        /\ steps = <<"Scanning", "ConcatenatingVideo">>
        /\ \A i \in 1 .. Len(cmds) :
              cmds[i].site = "repair" /\ cmds[i].output_path = video_concat_path
        /\ \A p \in DOMAIN files :
              p.dir \notin {video_output_dir, audio_output_dir}
        /\ pc \in {"cc_return", "returned"}
        /\ Returned => result = <<None, None>>

C7_Witness ==
    /\ VideoConcatReturnedFalse
    /\ Returned
    /\ audio_chunks # <<>>
    /\ cmds # <<>>

\* C8 as stated: once the binary could not be launched in some step, the
\* FileNotFoundError stays in flight until it has left process_chunks; the
\* run never goes on as after an ordinary failure.
C8_Original ==
    (\E i \in 1 .. Len(cmds) : cmds[i].outcome = "notfound") =>
        exc = "FileNotFoundError" \/ pc = "raised"

\* C9: a non-zero exit raises nothing: run_ffmpeg returns False to its
\* caller with no exception in flight, the only exceptions are open errors
\* and a binary that cannot be launched, and the only one that leaves
\* process_chunks is the latter, in the mux.  The orchestrator decides: a
\* non-zero video repair or mux leaves the run without a video path, a
\* non-zero audio repair or transcode still leads to the mux.
C9_NonZeroExitNotRaised ==
    /\ exc \in {NoExc, "OSError", "FileNotFoundError"}
    /\ exc = "FileNotFoundError" =>
          Len(cmds) > 0 /\ cmds[Len(cmds)].outcome = "notfound"
    /\ pc = "raised" =>
          cmds[Len(cmds)].outcome = "notfound" /\ cmds[Len(cmds)].site = "mux"
    /\ ( /\ Len(cmds) > 0
         /\ cmds[Len(cmds)].outcome = "exit1"
         /\ pc \in {"cc_cleanup", "after_transcode", "after_mux"} ) =>
          exc = NoExc /\ ~rf.success
    /\ \A i \in 1 .. Len(cmds) :
          cmds[i].outcome = "exit1" =>
              /\ ( cmds[i].site = "mux"
                   \/ cmds[i].output_path = video_concat_path ) =>
                    (Returned => result[1] = None)
              /\ ( cmds[i].site = "transcode"
                   \/ cmds[i].output_path = AudioConcatPath ) =>
                    (Terminal => CmdsOf("mux") # {})

C9_Witness ==
    /\ Returned
    /\ \E i \in CmdsOf("transcode") : cmds[i].outcome = "exit1"
    /\ result[1] # None

\* the order of the pipeline's steps
StepOrder ==
    <<"Scanning", "ConcatenatingVideo", "ConcatenatingAudio",
      "TranscodingAudio", "Muxing">>

Rank(step) == CHOOSE k \in 1 .. Len(StepOrder) : StepOrder[k] = step

\* C10: the steps of a run are entered in the fixed order, each at most
\* once, after the scan and the video concatenation; the audio concatenation
\* only with audio chunks, the transcode only after an audio repair that
\* exited 0, the mux only after a video repair that exited 0; and while an
\* external process runs the run waits for it, so every earlier process has
\* exited before the next step.
C10_StepOrder ==
    /\ \A i, j \in 1 .. Len(steps) :
          i < j => Rank(steps[i]) < Rank(steps[j])
    /\ Scanned => steps[1] = "Scanning"
    /\ Len(steps) >= 2 => steps[2] = "ConcatenatingVideo"
    /\ "ConcatenatingAudio" \in Range(steps) => audio_chunks # <<>>
    /\ "TranscodingAudio" \in Range(steps) =>
          /\ "ConcatenatingAudio" \in Range(steps)
          /\ Exit0("repair", AudioConcatPath)
    /\ "Muxing" \in Range(steps) => Exit0("repair", video_concat_path)
    /\ \A i \in 1 .. Len(cmds) :
          cmds[i].outcome = "running" =>
              i = Len(cmds) /\ running /\ pc = "ffmpeg_running"
    /\ running => pc = "ffmpeg_running" /\ cmds[Len(cmds)].outcome = "running"
    /\ Terminal => ~running

C10_Witness ==
    /\ Returned
    /\ steps = StepOrder
    /\ result[1] # None

\* a sequence of numbers in strictly ascending order
Ascending(s) == \A i, j \in 1 .. Len(s) : i < j => s[i] < s[j]

\* the indices below the scan limit at which a directory holds a chunk file
IndicesBelowLimit(dir) == {i \in dir : 0 <= i /\ i < ScanLimit}

\* C11: for each stream kind the scan returns exactly the indices in
\* [0, 1000) whose file exists, in strictly ascending order: gaps are
\* skipped, an empty or missing directory gives the empty sequence, and a
\* file at index 1000 or above is never returned.
C11_ScanReturnsExistingIndices ==
    Scanned =>
        /\ Ascending(video_chunks)
        /\ Range(video_chunks) = IndicesBelowLimit(videoDir)
        /\ Ascending(audio_chunks)
        /\ Range(audio_chunks) = IndicesBelowLimit(audioDir)
        /\ ~videoDirExists => video_chunks = <<>>
        /\ ~audioDirExists => audio_chunks = <<>>

C11_Witness ==
    /\ Scanned
    /\ videoDir = {0, ScanLimit - 1, ScanLimit}
    /\ video_chunks = <<0, ScanLimit - 1>>
    /\ audioDir = {ScanLimit}
    /\ audio_chunks = <<>>

\* a subtitle path was passed to process_chunks but no file is there
SrtGivenButMissing == srt_path # None /\ ~Exists(srt_path)

\* C12: with a subtitle path that does not exist, the mux command is the
\* command built for the same video, audio and output with no subtitle
\* argument (no subtitle input, no caption codec, no language tag), and the
\* returned tuple is decided by the exit of the mux alone, as without one.
C12_MissingSrtAsNoSrt ==
    SrtGivenButMissing =>
        /\ \A i \in CmdsOf("mux") :
              /\ cmds[i].argv = MuxCommand(video_concat_path, audio_concat_path,
                                           None, final_video_path)
              /\ Str(srt_path) \notin Range(cmds[i].argv)
              /\ "-c:s" \notin Range(cmds[i].argv)
              /\ "language=eng" \notin Range(cmds[i].argv)
        /\ (Returned /\ CmdsOf("mux") # {}) =>
              /\ result[1] # None <=> Exit0("mux", final_video_path)
              /\ result[2] = saved_audio_path

C12_Witness ==
    /\ SrtGivenButMissing
    /\ Returned
    /\ CmdsOf("mux") # {}
    /\ result[1] = final_video_path
    /\ audio_concat_path # None

\* the output files named by the commands run so far
OutputsNamed ==
    {cmds[i].output_path : i \in CmdsOf("transcode") \cup CmdsOf("mux")}

\* C13 as stated: the timestamp of the output names is the reading of the
\* clock at the start of the run.
C13_Original ==
    (start_time # NoTime /\ timestamp # "") =>
        timestamp = ToString(start_time \div TicksPerSecond)

\* C13 amended: the timestamp of the output names is the reading of the
\* clock taken at step 3, after the video (and audio) concatenation and
\* not before the start of the run, cut to whole seconds; the MP4 and the
\* WAV name of one run carry that same timestamp.
C13_Amended ==
    timestamp # "" =>
        /\ timestamp = ToString(now \div TicksPerSecond)
        /\ start_time # NoTime => start_time <= now
        /\ Exit0("repair", video_concat_path)
        /\ \A p \in OutputsNamed :
              \/ p = Path(video_output_dir, "output_" \o timestamp, ".mp4")
              \/ p = Path(audio_output_dir, "audio_" \o timestamp, ".wav")
        /\ \A p \in DOMAIN files :
              /\ p.dir = video_output_dir =>
                    p.stem = "output_" \o timestamp /\ p.suffix = ".mp4"
              /\ p.dir = audio_output_dir =>
                    p.stem = "audio_" \o timestamp /\ p.suffix = ".wav"

C13_Witness ==
    /\ Returned
    /\ start_time = 0
    /\ now >= TicksPerSecond
    /\ result[1] = Path(video_output_dir, "output_" \o timestamp, ".mp4")
    /\ result[2] = Path(audio_output_dir, "audio_" \o timestamp, ".wav")

\* nothing has been done yet: no directory created, no scan, no command
NoWorkDone ==
    /\ outDirs = {}
    /\ steps = <<>>
    /\ cmds = <<>>
    /\ temp_dir = "none"
    /\ DOMAIN files = {}

\* C14: when main finds the binary unavailable or the video directory
\* missing, it stops with nothing done: no processor constructed, no output
\* directory created, no scan, no command.  main stops for these two
\* reasons only, and does any work only after both tests passed; a missing
\* audio directory lets the run go on without audio.
C14_ChecksBeforeWork ==
    /\ (ffmpeg_check = "missing" \/ (start_time # NoTime /\ ~videoDirExists)) =>
          /\ NoWorkDone
          /\ pc \in {"main_check_ffmpeg", "main_check_dirs", "main_aborted"}
    /\ pc = "main_aborted" =>
          ffmpeg_check = "missing" \/ ~videoDirExists
    /\ (start_time # NoTime /\ ~NoWorkDone) =>
          ffmpeg_check = "ok" /\ videoDirExists
    /\ (start_time # NoTime /\ ~audioDirExists /\ Scanned) =>
          /\ audio_chunks = <<>>
          /\ "ConcatenatingAudio" \notin Range(steps)
          /\ \A i \in CmdsOf("mux") : NoAudioInput(cmds[i].argv)
          /\ Returned => result[2] = None

C14_Witness ==
    /\ pc = "main_aborted"
    /\ ffmpeg_check = "ok"
    /\ ~videoDirExists
    /\ audioDirExists
    /\ audioDir # {}
    /\ NoWorkDone

\* the two directories of the final artifacts
OutputDirs == {video_output_dir, audio_output_dir}

\* C15: no step removes a file of an output directory, and every file a
\* step creates or rewrites is in the temporary directory or is the MP4 or
\* the WAV named with the run's timestamp in its output directory.
C15_OutputsWrittenNeverRemoved ==
    [][ /\ \A p \in DOMAIN files :
              p.dir \in OutputDirs => p \in DOMAIN files'
        /\ \A p \in DOMAIN files' :
              (p \notin DOMAIN files \/ files'[p] # files[p]) =>
                  \/ p.dir = TempDirName
                  \/ p = final_video_path'
                  \/ p = final_audio_path' ]_vars

C15_Witness ==
    /\ Returned
    /\ MuxExitedNonZero
    /\ result = <<None, final_audio_path>>
    /\ Exists(final_audio_path)
    /\ Exists(final_video_path)
    /\ temp_dir = "removed"

\* the bytes of the chunks with the indices of S, in ascending index order
RECURSIVE RawBytes(_, _)
RawBytes(kind, S) ==
    IF S = {} THEN <<>>
    ELSE LET least == CHOOSE i \in S : \A j \in S : i <= j
         IN  ChunkBytes(kind, least) \o RawBytes(kind, S \ {least})

\* the chunk directory of a stream kind
ChunkDir(kind) == IF kind = "video" THEN videoDir ELSE audioDir

\* C16: when the repair command is invoked, and while it runs, the raw file
\* holds the bytes of every chunk found, each once and unchanged, in
\* ascending index order; while the loop runs it holds those of the chunks
\* appended so far.
C16_RawFileIsChunksInOrder ==
    /\ (rf.site = "repair" /\ pc \in {"run_ffmpeg", "ffmpeg_running"}) =>
          /\ Exists(temp_concat_path)
          /\ files[temp_concat_path] =
                RawBytes(cc.chunk_type,
                         IndicesBelowLimit(ChunkDir(cc.chunk_type)))
          /\ cmds # <<>> /\ pc = "ffmpeg_running" =>
                cmds[Len(cmds)].inputs = <<temp_concat_path>>
    /\ pc = "cc_loop" =>
          /\ Exists(temp_concat_path)
          /\ files[temp_concat_path] =
                RawBytes(cc.chunk_type,
                         {cc.chunks[n] : n \in 1 .. cc.k - 1})

C16_Witness ==
    /\ pc = "ffmpeg_running"
    /\ rf.site = "repair"
    /\ cc.chunk_type = "audio"
    /\ cc.chunks = <<0, ScanLimit - 1>>
    /\ files[temp_concat_path] =
          <<"header:audio_0", "data:audio_0",
            "header:audio_999", "data:audio_999">>

\* C17: called with an empty sequence, concatenate_raw_chunks returns False
\* at once: no file is created and no command invoked.  Called with a
\* non-empty sequence, it has removed the raw file whenever it returns, and
\* it returns True exactly when the repair command was run and exited 0
\* (False when the repair was never reached or could not be launched).
C17_ConcatCleansUpAndReturnsRepairFlag ==
    /\ cc.chunks = <<>> =>
          /\ pc \in {"cc_entry", "cc_return"}
          /\ cmds = <<>>
          /\ DOMAIN files = {}
          /\ ~cc.ret
    /\ (cc.chunks # <<>> /\ pc = "cc_return") =>
          /\ ~Exists(temp_concat_path)
          /\ Len(cmds) <= 1
          /\ cc.ret <=> (cmds # <<>> /\ cmds[1].outcome = "exit0")
          /\ cc.ret => Exists(cc.output_path)
          /\ exc = NoExc

C17_Witness ==
    /\ pc = "cc_return"
    /\ Len(cc.chunks) = 2
    /\ cc.k = 2
    /\ cmds = <<>>
    /\ ~cc.ret
    /\ DOMAIN files = {}

\* the words of sub stand next to each other, in order, in argv
Contains(argv, sub) ==
    \E j \in 0 .. Len(argv) - Len(sub) :
        \A k \in 1 .. Len(sub) : argv[j + k] = sub[k]

\* the mux commands built so far: those run, and the one about to be run
MuxCommands ==
    {cmds[i].argv : i \in CmdsOf("mux")}
    \cup (IF rf.site = "mux" THEN {rf.argv} ELSE {})

AudioGiven == audio_concat_path # None

SrtGivenAndExists == srt_path # None /\ Exists(srt_path)

\* C18: whatever the audio path (given or not) and the subtitle path (not
\* given, given but missing, given and existing), one mux command is built.
\* It always holds the video input, the video re-encode options, -shortest
\* and the negative-timestamp normalisation, and ends with the output file;
\* it holds the audio input and the audio re-encode options exactly when an
\* audio path is given; it holds the subtitle input with the mov_text codec
\* and the language tag exactly when the subtitle path is given and exists.
C18_MuxCommandContent ==
    /\ Cardinality(CmdsOf("mux")) <= 1
    /\ Cardinality(MuxCommands) <= 1
    /\ \A argv \in MuxCommands :
          /\ Contains(argv, <<"-i", Str(video_concat_path)>>)
          /\ Contains(argv, <<"-c:v", "libx264", "-preset", "medium",
                              "-crf", "23">>)
          /\ "-shortest" \in Range(argv)
          /\ Contains(argv, <<"-avoid_negative_ts", "make_zero">>)
          /\ argv[Len(argv)] = Str(final_video_path)
          /\ AudioGiven <=> Contains(argv, <<"-i", Str(AudioConcatPath)>>)
          /\ AudioGiven <=> Contains(argv, <<"-c:a", "aac", "-b:a", "128k">>)
          /\ SrtGivenAndExists <=> Contains(argv, <<"-i", Str(SrtFile)>>)
          /\ SrtGivenAndExists <=> Contains(argv, <<"-c:s", "mov_text">>)
          /\ SrtGivenAndExists
                <=> Contains(argv, <<"-metadata:s:s:0", "language=eng">>)
          /\ Count(argv, "-i") = 1 + (IF AudioGiven THEN 1 ELSE 0)
                                   + (IF SrtGivenAndExists THEN 1 ELSE 0)

C18_Witness ==
    /\ CmdsOf("mux") # {}
    /\ AudioGiven
    /\ SrtGivenAndExists
    /\ \E i \in CmdsOf("mux") :
          /\ Contains(cmds[i].argv, <<"-i", Str(AudioConcatPath)>>)
          /\ Contains(cmds[i].argv, <<"-i", Str(SrtFile)>>)

\* the paths the finished run hands back
FinalVideoPresent == Returned /\ result[1] # None

FinalAudioPresent == Returned /\ result[2] # None

VideoConcatSucceeded == Exit0("repair", video_concat_path)

AudioConcatSucceeded == Exit0("repair", AudioConcatPath)

TranscodeSucceeded == Exit0("transcode", final_audio_path)

MuxSucceeded == Exit0("mux", final_video_path)

\* C19: when process_chunks has ended, the final video path is returned
\* exactly when the video sequence was not empty, the video concatenation
\* succeeded and the mux succeeded; the final audio path is returned only
\* when the audio sequence was not empty and the video concatenation, the
\* audio concatenation and the transcode succeeded; and whether a returning
\* run hands back the audio path is decided by the transcode, whatever the
\* mux did.
C19_TerminalOutcome ==
    Terminal =>
        /\ Returned => Len(result) = 2
        /\ FinalVideoPresent <=>
              (video_chunks # <<>> /\ VideoConcatSucceeded /\ MuxSucceeded)
        /\ FinalVideoPresent => result[1] = final_video_path
        /\ FinalAudioPresent =>
              /\ audio_chunks # <<>>
              /\ VideoConcatSucceeded
              /\ AudioConcatSucceeded
              /\ TranscodeSucceeded
              /\ result[2] = final_audio_path
        /\ Returned => (FinalAudioPresent <=> TranscodeSucceeded)

C19_Witness ==
    /\ Returned
    /\ result[1] = None
    /\ result[2] = final_audio_path
    /\ TranscodeSucceeded
    /\ \E i \in CmdsOf("mux") : cmds[i].outcome = "exit1"

\* the run has ended: process_chunks returned or was left by an exception,
\* or main gave up before calling it
Finished == Terminal \/ pc = "main_aborted"

\* at most four commands, one per output file, and no step entered twice
CommandsBounded ==
    /\ Len(cmds) <= 4
    /\ \A i, j \in 1 .. Len(cmds) :
          cmds[i].output_path = cmds[j].output_path => i = j
    /\ \A i \in 1 .. Len(cmds) :
          \/ cmds[i].site = "repair"
                /\ cmds[i].output_path \in {video_concat_path, AudioConcatPath}
          \/ cmds[i].site = "transcode"
                /\ cmds[i].output_path = final_audio_path
          \/ cmds[i].site = "mux"
                /\ cmds[i].output_path = final_video_path
    /\ \A i, j \in 1 .. Len(steps) : steps[i] = steps[j] => i = j
    /\ \A i \in 1 .. Len(cmds) - 1 : cmds[i].outcome # "running"

\* C20: a run invokes at most four external commands (video repair, audio
\* repair, transcode, mux), each at most once, and enters no step twice; and
\* if every external process that is started exits, the run ends.  A run
\* that never ends is therefore one that waits for ever for an external
\* process.
C20_TerminatesWithinFourCommands ==
    /\ []CommandsBounded
    /\ ([]<>(~running)) => <>Finished

C20_Witness ==
    /\ Returned
    /\ Len(cmds) = 4
    /\ \A i \in 1 .. 4 : cmds[i].outcome \in {"exit0", "exit1"}
    /\ Len(steps) = 5

====
